---------------------------- MODULE Spec2Model ----------------------------
(***************************************************************************)
(* Figma AI Layers renamer: the plugin host (code.ts), the UI panel        *)
(* (src/ui.tsx) and the two model backends, as one state machine.          *)
(*                                                                         *)
(* A JavaScript string is a sequence of tokens: <<"Error: ", "x">> is the  *)
(* string "Error: x", <<>> is "".  Concatenation is \o.  The tokens "BT",  *)
(* "json", "{", "}", "\"", ":", ",", " " and "\n" are the characters the   *)
(* fence regexes and JSON.parse look at ("BT" stands for one backtick);     *)
(* every other token is opaque text.                                       *)
(***************************************************************************)
EXTENDS Integers, Sequences, FiniteSets, TLC

VARIABLES
    \* UI panel (React state of App, src/ui.tsx:6-11)
    provider, apiKey, model, availableModels, status,
    \* the two postMessage channels and the UI's outstanding asynchronous work
    toHost, toUI, pendingHttp, pendingModels, timers,
    \* plugin host (figma.clientStorage, figma.currentPage.selection, node names)
    storage, selection, names,
    \* bounded count of user gestures
    clicks,
    \* inputs and outputs of the pure-function specifications
    fx,
    \* history of the rename requests under way: what each was asked with and
    \* which nodes were serialized for it (no code writes or reads it)
    history

vars == <<provider, apiKey, model, availableModels, status,
          toHost, toUI, pendingHttp, pendingModels, timers,
          storage, selection, names, clicks, fx, history>>

uiVars == <<provider, apiKey, model, availableModels, status>>
hostVars == <<storage, selection, names>>

-----------------------------------------------------------------------------
(* Strings *)

Str(t) == <<t>>
Empty == <<>>

Contains(s, t) == \E i \in 1..Len(s) : s[i] = t

StartsWith(s, t) == Len(s) > 0 /\ s[1] = t

\* String.prototype.replace(/pat/g, ""): one left-to-right pass, matches do
\* not overlap and the result is not rescanned.
RECURSIVE RemoveAll(_, _)
RemoveAll(s, pat) ==
    IF Len(s) < Len(pat) THEN s
    ELSE IF SubSeq(s, 1, Len(pat)) = pat
         THEN RemoveAll(SubSeq(s, Len(pat) + 1, Len(s)), pat)
         ELSE <<Head(s)>> \o RemoveAll(Tail(s), pat)

WS == {" ", "\n"}

RECURSIVE TrimStart(_)
TrimStart(s) == IF Len(s) > 0 /\ Head(s) \in WS THEN TrimStart(Tail(s)) ELSE s

RECURSIVE TrimEnd(_)
TrimEnd(s) ==
    IF Len(s) > 0 /\ s[Len(s)] \in WS THEN TrimEnd(SubSeq(s, 1, Len(s) - 1)) ELSE s

\* String.prototype.trim()
Trim(s) == TrimEnd(TrimStart(s))

\* one backtick character
Backtick == "BT"

Fence == <<Backtick, Backtick, Backtick>>
FenceJson == <<Backtick, Backtick, Backtick, "json">>

\* text.replace(/```json/g, "").replace(/```/g, "").trim()
CleanText(text) == Trim(RemoveAll(RemoveAll(text, FenceJson), Fence))

-----------------------------------------------------------------------------
(* JSON.  An object is the sequence of its <<key, value>> members in        *)
(* insertion order (the order Object.keys lists them), keys distinct.      *)

Quote == "\""

JsonFail == [ok |-> FALSE]
JsonNull == [ok |-> TRUE, kind |-> "null"]
JsonObject(members) == [ok |-> TRUE, kind |-> "object", members |-> members]

\* obj[key] = value: overwrites a member in place, appends a new one
Put(members, key, value) ==
    IF \E i \in 1..Len(members) : members[i][1] = key
    THEN [i \in 1..Len(members) |->
            IF members[i][1] = key THEN <<key, value>> ELSE members[i]]
    ELSE Append(members, <<key, value>>)

RECURSIVE SkipWs(_, _)
SkipWs(s, i) == IF i <= Len(s) /\ s[i] \in WS THEN SkipWs(s, i + 1) ELSE i

\* the index of the next quote at or after i, 0 when there is none
RECURSIVE StringEnd(_, _)
StringEnd(s, i) ==
    IF i > Len(s) THEN 0 ELSE IF s[i] = Quote THEN i ELSE StringEnd(s, i + 1)

Is(s, i, t) == i <= Len(s) /\ s[i] = t

RECURSIVE ParseMembers(_, _, _)
ParseMembers(s, i, acc) ==
    LET k0 == SkipWs(s, i)
        k1 == StringEnd(s, k0 + 1)
        c  == SkipWs(s, k1 + 1)
        v0 == SkipWs(s, c + 1)
        v1 == StringEnd(s, v0 + 1)
        n  == SkipWs(s, v1 + 1)
    IN  IF ~Is(s, k0, Quote) \/ k1 = 0 THEN JsonFail
        ELSE IF ~Is(s, c, ":") THEN JsonFail
        ELSE IF ~Is(s, v0, Quote) \/ v1 = 0 THEN JsonFail
        ELSE LET acc2 == Put(acc, SubSeq(s, k0 + 1, k1 - 1), SubSeq(s, v0 + 1, v1 - 1))
             IN  IF Is(s, n, ",") THEN ParseMembers(s, n + 1, acc2)
                 ELSE IF Is(s, n, "}") /\ SkipWs(s, n + 1) > Len(s)
                      THEN JsonObject(acc2)
                      ELSE JsonFail

\* JSON.parse, for the values the model's bodies hold: null and objects of
\* string members.  Anything else is a SyntaxError.
JsonParse(s) ==
    LET i == SkipWs(s, 1)
        j == SkipWs(s, i + 1)
    IN  IF Is(s, i, "null") THEN (IF j > Len(s) THEN JsonNull ELSE JsonFail)
        ELSE IF ~Is(s, i, "{") THEN JsonFail
        ELSE IF Is(s, j, "}")
             THEN (IF SkipWs(s, j + 1) > Len(s) THEN JsonObject(<<>>) ELSE JsonFail)
             ELSE ParseMembers(s, i + 1, <<>>)

RECURSIVE StringifyMembers(_)
StringifyMembers(members) ==
    IF members = <<>> THEN <<>>
    ELSE LET m == Head(members)
             one == <<Quote>> \o m[1] \o <<Quote, ":", Quote>> \o m[2] \o <<Quote>>
         IN  IF Len(members) = 1 THEN one
             ELSE one \o <<",">> \o StringifyMembers(Tail(members))

\* JSON.stringify of an object of string members
JsonStringify(members) == <<"{">> \o StringifyMembers(members) \o <<"}">>

-----------------------------------------------------------------------------
(* The two model backends.  An HTTP response is                             *)
(*   [status, statusText, isJson, raw, errorMessage, hasText, text]        *)
(* status/statusText: response.status, response.statusText; raw: the body  *)
(* as response.text() gives it; isJson: whether response.json() parses it; *)
(* errorMessage: errorBody.error?.message ("" when absent); hasText/text:  *)
(* the model's answer inside the provider's envelope                       *)
(* (candidates[0].content.parts[0].text, choices[0].message.content).      *)

Ok(renames) == [ok |-> TRUE, renames |-> renames]
Throw(message) == [ok |-> FALSE, message |-> message]

\* response.ok
ResponseOk(resp) == resp.status >= 200 /\ resp.status <= 299

\* JSON.parse(cleanText), its SyntaxError as a thrown Error
ParseRenames(cleanText) ==
    LET v == JsonParse(cleanText)
    IN  IF v.ok THEN Ok(v) ELSE Throw(Str("SyntaxError: not valid JSON"))

QuotaMessage ==
    <<"Quota exceeded (", "Rate Limit", "). Please wait ~30 seconds and try again.">>

\* callLLM without the 429 branch of its error handling
CallLLMNo429Branch(resp) ==
    IF ~ResponseOk(resp)
    THEN Throw(<<"API Error ", ToString(resp.status), ": ">>
                    \o (IF ~resp.isJson THEN resp.statusText
                        ELSE IF resp.errorMessage # Empty THEN resp.errorMessage
                        ELSE resp.raw))
    ELSE IF ~resp.isJson THEN Throw(Str("SyntaxError: not valid JSON"))
    ELSE IF ~resp.hasText \/ resp.text = Empty
         THEN Throw(Str("No response text from AI"))
    ELSE ParseRenames(CleanText(resp.text))

\* callLLM after fetch() has answered with resp
CallLLM(resp) ==
    IF ~ResponseOk(resp)
    THEN IF resp.status = 429 THEN Throw(QuotaMessage)
         ELSE Throw(<<"API Error ", ToString(resp.status), ": ">>
                    \o (IF ~resp.isJson THEN resp.statusText
                        ELSE IF resp.errorMessage # Empty THEN resp.errorMessage
                        ELSE resp.raw))
    ELSE IF ~resp.isJson THEN Throw(Str("SyntaxError: not valid JSON"))
    ELSE IF ~resp.hasText \/ resp.text = Empty
         THEN Throw(Str("No response text from AI"))
    ELSE ParseRenames(CleanText(resp.text))

GitHubRateMessage == <<"GitHub ", "Rate Limit", " Exceeded.">>

PermissionMessage ==
    Str("Token missing permissions. Try using a 'Classic' Token with 'read:user' scope.")

\* callGitHub after fetch() has answered with resp
CallGitHub(resp) ==
    IF ~ResponseOk(resp)
    THEN IF resp.status = 429 THEN Throw(GitHubRateMessage)
         ELSE IF Contains(resp.raw, "permission is required")
              THEN Throw(PermissionMessage)
              ELSE Throw(<<"GitHub API Error: ">> \o resp.raw)
    ELSE IF ~resp.isJson THEN Throw(Str("SyntaxError: not valid JSON"))
    ELSE IF ~resp.hasText
         THEN Throw(Str("TypeError: cannot read properties of undefined"))
    ELSE ParseRenames(CleanText(resp.text))

\* the branch of src/ui.tsx:37-41
CallBackend(backend, resp) ==
    IF backend = "google" THEN CallLLM(resp) ELSE CallGitHub(resp)

-----------------------------------------------------------------------------
(* The document and the node serializer (code.ts).  A document is          *)
(*   [nodes, type, container, children, characters]                        *)
(* container: the nodes that have a "children" property (ChildrenMixin);   *)
(* children[n]: their children in host order.                              *)

None == [some |-> FALSE]
Some(v) == [some |-> TRUE, val |-> v]

LeafData(doc, nm, n) ==
    [id |-> n, name |-> nm[n], type |-> doc.type[n],
     text |-> IF doc.type[n] = "TEXT" THEN Some(doc.characters[n]) ELSE None]

\* getNodeData testing children.length instead of "children" in node
RECURSIVE GetNodeDataNonEmpty(_, _, _)
GetNodeDataNonEmpty(doc, nm, n) ==
    IF n \in doc.container /\ doc.children[n] # <<>>
    THEN [children |-> [i \in 1..Len(doc.children[n]) |->
                            GetNodeDataNonEmpty(doc, nm, doc.children[n][i])]]
         @@ LeafData(doc, nm, n)
    ELSE LeafData(doc, nm, n)

RECURSIVE GetNodeData(_, _, _)
GetNodeData(doc, nm, n) ==
    IF n \in doc.container
    THEN [children |-> [i \in 1..Len(doc.children[n]) |->
                            GetNodeData(doc, nm, doc.children[n][i])]]
         @@ LeafData(doc, nm, n)
    ELSE LeafData(doc, nm, n)

\* selection.map(getNodeData)
SerializeSelection(doc, nm, sel) ==
    [i \in 1..Len(sel) |-> GetNodeData(doc, nm, sel[i])]

HasChildren(rec) == "children" \in DOMAIN rec

\* the ids of the records of a serialized subtree
RECURSIVE RecordIds(_)
RecordIds(rec) ==
    {rec.id} \cup
    (IF HasChildren(rec)
     THEN UNION {RecordIds(rec.children[i]) : i \in 1..Len(rec.children)}
     ELSE {})

\* the ids of the nodes that layersData holds: the selected nodes and their
\* descendants
LayerIds(layers) == UNION {RecordIds(layers[i]) : i \in 1..Len(layers)}

\* The document of the protocol specification: a frame holding a text node
\* and an empty frame, and a rectangle beside it.
N1 == Str("1:1")
N2 == Str("1:2")
N3 == Str("1:3")
N4 == Str("1:4")
\* an id no node of the document has
Absent == Str("9:9")

Doc ==
    [nodes |-> {N1, N2, N3, N4},
     type |-> (N1 :> "FRAME" @@ N2 :> "TEXT" @@ N3 :> "FRAME" @@ N4 :> "RECTANGLE"),
     container |-> {N1, N3},
     children |-> (N1 :> <<N2, N3>> @@ N2 :> <<>> @@ N3 :> <<>> @@ N4 :> <<>>),
     characters |-> (N1 :> Empty @@ N2 :> Str("Sign in") @@ N3 :> Empty @@ N4 :> Empty)]

InitialNames ==
    (N1 :> Str("Frame 1") @@ N2 :> Str("Text") @@ N3 :> Str("Frame 2")
        @@ N4 :> Str("Rectangle 1"))

Selections == {<<>>, <<N1>>}

\* figma.getNodeById(id) finds a node
NodeExists(id) == id \in Doc.nodes

\* the loop with count++ outside the if (node)
RECURSIVE ApplyLoopCountKeys(_, _, _, _)
ApplyLoopCountKeys(members, i, nm, count) ==
    IF i > Len(members) THEN [names |-> nm, count |-> count]
    ELSE LET id == members[i][1]
         IN  IF NodeExists(id)
             THEN ApplyLoopCountKeys(members, i + 1,
                            [nm EXCEPT ![id] = members[i][2]], count + 1)
             ELSE ApplyLoopCountKeys(members, i + 1, nm, count + 1)

\* the loop of the apply-renames handler, over Object.keys(renames) from
\* index i on: [names, count]
RECURSIVE ApplyLoop(_, _, _, _)
ApplyLoop(members, i, nm, count) ==
    IF i > Len(members) THEN [names |-> nm, count |-> count]
    ELSE LET id == members[i][1]
         IN  IF NodeExists(id)
             THEN ApplyLoop(members, i + 1,
                            [nm EXCEPT ![id] = members[i][2]], count + 1)
             ELSE ApplyLoop(members, i + 1, nm, count)

-----------------------------------------------------------------------------
(* Bounds and input sets of the protocol specification *)

\* user gestures (clicks, edits, selections) in one run
MaxGestures == 2

IdleStatus == Str("Idle")
ProcessingStatus == Str("Processing...")
SuccessStatus == Str("Layers renamed successfully!")
NoKeyStatus == Str("Please enter an API Key.")
FetchingStatus == Str("Fetching models...")
ModelsLoadedStatus == Str("Models loaded. Ready to rename.")
ModelsFailedStatus == Str("Could not load models. Using default list.")

\* the prompt context textarea, left as the user first typed it
PromptContext == Str("login screen")

Key1 == Str("key-1")
Key2 == Str("key-2")
TypedKeys == {Empty, Key2}

Providers == {"google", "github"}

DefaultModel == Str("gemini-1.5-flash")
\* the <option>s shown while availableModels is empty
DefaultOptions == <<Str("gemini-1.5-flash"), Str("gemini-1.5-pro"), Str("gemini-pro")>>
\* the static list fetchModels falls back to for GitHub
FallbackModels ==
    <<Str("gpt-4o"), Str("gpt-4o-mini"), Str("Phi-3-mini-4k-instruct"),
      Str("Llama-3.2-90B-Vision-Instruct")>>
\* lists the two providers' model endpoints answer with
GoogleListed == <<Str("gemini-1.5-pro"), Str("gemini-1.5-flash")>>
GitHubListed == <<Str("gpt-4o-mini")>>

\* the rename map the model answers with: three keys, two of them nodes
Map1 == <<<<N2, Str("Title")>>, <<Absent, Str("Icon")>>, <<N4, Str("Divider")>>>>

\* body wrapped in a markdown code fence
Wrap(body) == FenceJson \o <<"\n">> \o body \o <<"\n">> \o Fence

AnswerTexts ==
    {Wrap(JsonStringify(Map1)), <<"null">>, Str("Here are the new names")}

Answer(text) ==
    [status |-> 200, statusText |-> Str("OK"), isJson |-> TRUE, raw |-> Str("<envelope>"),
     errorMessage |-> Empty, hasText |-> TRUE, text |-> text]

Failure(code, reason, isJson, raw, errorMessage) ==
    [status |-> code, statusText |-> reason, isJson |-> isJson, raw |-> raw,
     errorMessage |-> errorMessage, hasText |-> FALSE, text |-> Empty]

Responses ==
    {Answer(t) : t \in AnswerTexts}
    \cup {[Answer(Empty) EXCEPT !.hasText = FALSE],
          Failure(429, Str("Too Many Requests"), TRUE, Str("<quota body>"), Str("quota")),
          Failure(503, Str("Service Unavailable"), TRUE, Str("<overloaded body>"),
                  Str("The model is overloaded")),
          Failure(500, Str("Internal Server Error"), FALSE, Str("<html>"), Empty),
          Failure(403, Str("Forbidden"), TRUE,
                  <<"{", "permission is required", "}">>, Empty)}

-----------------------------------------------------------------------------
(* UI panel: src/ui.tsx *)

\* parent.postMessage({ pluginMessage: m }, "*")
PostToHost(m) == toHost' = Append(toHost, m)
\* figma.ui.postMessage(m)
PostToUI(m) == toUI' = Append(toUI, m)

Gesture == clicks < MaxGestures /\ clicks' = clicks + 1

\* history.asked: for each "rename-layers" whose answer the UI has not yet
\* received, the provider and the model selected when it was sent, oldest
\* first.  history.scopes: for each "apply-renames" the host has not yet
\* handled, the ids serialized for its request, oldest first.
NoHistory == [asked |-> <<>>, scopes |-> <<>>]

Rest(q) == IF q = <<>> THEN q ELSE Tail(q)

Asked == history' = [history EXCEPT
                        !.asked = Append(@, [provider |-> provider, model |-> model])]
Answered == history' = [history EXCEPT !.asked = Rest(@)]

\* fetchModels(key, currentProvider) up to its first await
StartFetchModels(key, p) ==
    IF key = Empty
    THEN UNCHANGED <<status, pendingModels>>
    ELSE /\ status' = FetchingStatus
         /\ pendingModels' = Append(pendingModels, [provider |-> p, key |-> key])

RemoveAt(q, i) == SubSeq(q, 1, i - 1) \o SubSeq(q, i + 1, Len(q))

\* window.onmessage, type "loaded-storage"
UiLoadedStorage ==
    /\ toUI # <<>> /\ Head(toUI).type = "loaded-storage"
    /\ toUI' = Tail(toUI)
    /\ IF Head(toUI).apiKey.some /\ Head(toUI).apiKey.val # Empty
       THEN /\ apiKey' = Head(toUI).apiKey.val
            /\ StartFetchModels(Head(toUI).apiKey.val, provider)
       ELSE UNCHANGED <<apiKey, status, pendingModels>>
    /\ UNCHANGED <<provider, model, availableModels, toHost, pendingHttp, timers,
                   hostVars, clicks, fx, history>>

\* window.onmessage, type "layers-renamed"
UiLayersRenamed ==
    /\ toUI # <<>> /\ Head(toUI).type = "layers-renamed"
    /\ toUI' = Tail(toUI)
    /\ status' = SuccessStatus
    /\ timers' = timers + 1
    /\ UNCHANGED <<provider, apiKey, model, availableModels, toHost, pendingHttp,
                   pendingModels, hostVars, clicks, fx, history>>

\* the setTimeout callback of the "layers-renamed" branch
TimerFires ==
    /\ timers > 0
    /\ timers' = timers - 1
    /\ status' = IdleStatus
    /\ UNCHANGED <<provider, apiKey, model, availableModels, toHost, toUI, pendingHttp,
                   pendingModels, hostVars, clicks, fx, history>>

\* window.onmessage, type "layers-data-for-ai", up to the await of fetch()
UiLayersData ==
    /\ toUI # <<>> /\ Head(toUI).type = "layers-data-for-ai"
    /\ toUI' = Tail(toUI)
    /\ status' = <<"Using ">> \o Head(toUI).model \o <<"...">>
    /\ pendingHttp' = Append(pendingHttp,
            [backend |-> provider, apiKey |-> Head(toUI).apiKey,
             model |-> Head(toUI).model, context |-> Head(toUI).context,
             layers |-> Head(toUI).layers, attempts |-> 1])
    /\ Answered
    /\ UNCHANGED <<provider, apiKey, model, availableModels, toHost, pendingModels,
                   timers, hostVars, clicks, fx>>

\* window.onmessage, type "error"
UiError ==
    /\ toUI # <<>> /\ Head(toUI).type = "error"
    /\ toUI' = Tail(toUI)
    /\ status' = <<"Error: ">> \o Head(toUI).payload
    /\ Answered
    /\ UNCHANGED <<provider, apiKey, model, availableModels, toHost, pendingHttp,
                   pendingModels, timers, hostVars, clicks, fx>>

\* the catch block with console.error alone
OnCallErrorLogsOnly(message) ==
    UNCHANGED <<status, toHost>>

\* the catch block falling through to the postMessage of the try
OnCallErrorStillApplies(message) ==
    /\ status' = <<"Error: ">> \o message
    /\ PostToHost([type |-> "apply-renames", renames |-> JsonObject(<<>>)])

\* the catch block of the request flow
OnCallError(message) ==
    /\ status' = <<"Error: ">> \o message
    /\ UNCHANGED toHost

\* the rest of the async function of "layers-data-for-ai" once fetch() of
\* call i has answered with resp
HttpRespond(i, resp) ==
    /\ i \in 1..Len(pendingHttp)
    /\ pendingHttp' = RemoveAt(pendingHttp, i)
    /\ LET r == CallBackend(pendingHttp[i].backend, resp)
       IN  IF r.ok
           THEN /\ PostToHost([type |-> "apply-renames", renames |-> r.renames])
                /\ UNCHANGED status
                /\ history' = [history EXCEPT
                        !.scopes = Append(@, LayerIds(pendingHttp[i].layers))]
           ELSE /\ OnCallError(r.message)
                /\ UNCHANGED history
    /\ UNCHANGED <<provider, apiKey, model, availableModels, toUI, pendingModels,
                   timers, hostVars, clicks, fx>>

\* handleRename without its guard on apiKey
HandleRenameNoKeyCheck ==
    /\ status # ProcessingStatus
    /\ Gesture
    /\ status' = ProcessingStatus
    /\ PostToHost([type |-> "rename-layers", apiKey |-> apiKey, model |-> model,
                   context |-> PromptContext])
    /\ Asked
    /\ UNCHANGED <<provider, apiKey, model, availableModels, toUI, pendingHttp,
                   pendingModels, timers, hostVars, fx>>

\* handleRename: the button is disabled while status is "Processing..."
HandleRename ==
    /\ status # ProcessingStatus
    /\ Gesture
    /\ IF apiKey = Empty
       THEN /\ status' = NoKeyStatus
            /\ UNCHANGED <<toHost, history>>
       ELSE /\ status' = ProcessingStatus
            /\ PostToHost([type |-> "rename-layers", apiKey |-> apiKey, model |-> model,
                           context |-> PromptContext])
            /\ Asked
    /\ UNCHANGED <<provider, apiKey, model, availableModels, toUI, pendingHttp,
                   pendingModels, timers, hostVars, fx>>

\* saveKey, from the key input's onChange
SaveKey(key) ==
    /\ key # apiKey
    /\ Gesture
    /\ apiKey' = key
    /\ PostToHost([type |-> "save-api-key", apiKey |-> key])
    /\ UNCHANGED <<provider, model, availableModels, status, toUI, pendingHttp,
                   pendingModels, timers, hostVars, fx, history>>

\* "Check Key & Load Models" and the key input's onBlur
ClickFetchModels ==
    /\ apiKey # Empty
    /\ Gesture
    /\ StartFetchModels(apiKey, provider)
    /\ UNCHANGED <<provider, apiKey, model, availableModels, toHost, toUI, pendingHttp,
                   timers, hostVars, fx, history>>

\* the provider <select> onChange, and the effect that depends on [provider]
\* running again after the render
ChangeProvider(p) ==
    /\ p # provider
    /\ Gesture
    /\ provider' = p
    /\ availableModels' = <<>>
    /\ model' = Empty
    /\ StartFetchModels(apiKey, p)
    /\ PostToHost([type |-> "request-storage"])
    /\ UNCHANGED <<apiKey, toUI, pendingHttp, timers, hostVars, fx, history>>

Options == IF availableModels # <<>> THEN availableModels ELSE DefaultOptions

\* the model <select> onChange
SelectModel(m) ==
    /\ m # model
    /\ \E i \in 1..Len(Options) : i <= 2 /\ Options[i] = m
    /\ Gesture
    /\ model' = m
    /\ status' = IdleStatus
    /\ UNCHANGED <<provider, apiKey, availableModels, toHost, toUI, pendingHttp,
                   pendingModels, timers, hostVars, fx, history>>

\* fetchModels after its fetch(): listed = TRUE when the endpoint answered ok
\* with the list
FetchModelsDone(i, listed) ==
    /\ i \in 1..Len(pendingModels)
    /\ pendingModels' = RemoveAt(pendingModels, i)
    /\ LET google == pendingModels[i].provider = "google"
           models == IF google THEN GoogleListed
                     ELSE IF listed THEN GitHubListed ELSE FallbackModels
       IN  IF google /\ ~listed
           THEN /\ status' = ModelsFailedStatus
                /\ UNCHANGED <<availableModels, model>>
           ELSE /\ availableModels' = models
                /\ model' = IF Len(models) > 0 THEN models[1] ELSE model
                /\ status' = ModelsLoadedStatus
    /\ UNCHANGED <<provider, apiKey, toHost, toUI, pendingHttp, timers, hostVars,
                   clicks, fx, history>>

-----------------------------------------------------------------------------
(* Plugin host: figma.ui.onmessage of code.ts *)

\* figma.clientStorage.getAsync(key)
GetAsync(key) == IF key \in DOMAIN storage THEN Some(storage[key]) ELSE None

\* the save-api-key handler writing the key only when none is stored
HostSaveApiKeyKeepsFirst ==
    /\ toHost # <<>> /\ Head(toHost).type = "save-api-key"
    /\ toHost' = Tail(toHost)
    /\ storage' = IF "apiKey" \in DOMAIN storage THEN storage
                  ELSE [k \in {"apiKey"} |-> Head(toHost).apiKey]
    /\ UNCHANGED <<uiVars, toUI, pendingHttp, pendingModels, timers, selection, names,
                   clicks, fx, history>>

HostSaveApiKey ==
    /\ toHost # <<>> /\ Head(toHost).type = "save-api-key"
    /\ toHost' = Tail(toHost)
    /\ storage' = [k \in DOMAIN storage \cup {"apiKey"} |->
                     IF k = "apiKey" THEN Head(toHost).apiKey ELSE storage[k]]
    /\ UNCHANGED <<uiVars, toUI, pendingHttp, pendingModels, timers, selection, names,
                   clicks, fx, history>>

HostRequestStorage ==
    /\ toHost # <<>> /\ Head(toHost).type = "request-storage"
    /\ toHost' = Tail(toHost)
    /\ PostToUI([type |-> "loaded-storage", apiKey |-> GetAsync("apiKey")])
    /\ UNCHANGED <<uiVars, pendingHttp, pendingModels, timers, hostVars, clicks, fx, history>>

\* the rename-layers handler marking the selected nodes as it serializes them
HostRenameLayersMarksNodes ==
    /\ toHost # <<>> /\ Head(toHost).type = "rename-layers"
    /\ toHost' = Tail(toHost)
    /\ IF Len(selection) = 0
       THEN /\ PostToUI([type |-> "error", payload |-> Str("No layers selected")])
            /\ UNCHANGED names
       ELSE /\ PostToUI([type |-> "layers-data-for-ai",
                         layers |-> SerializeSelection(Doc, names, selection),
                         context |-> Head(toHost).context,
                         apiKey |-> Head(toHost).apiKey,
                         model |-> Head(toHost).model])
            /\ names' = [n \in DOMAIN names |->
                            IF \E i \in 1..Len(selection) : selection[i] = n
                            THEN names[n] \o <<" (renaming)">> ELSE names[n]]
    /\ UNCHANGED <<uiVars, pendingHttp, pendingModels, timers, storage, selection,
                   clicks, fx, history>>

HostRenameLayers ==
    /\ toHost # <<>> /\ Head(toHost).type = "rename-layers"
    /\ toHost' = Tail(toHost)
    /\ IF Len(selection) = 0
       THEN PostToUI([type |-> "error", payload |-> Str("No layers selected")])
       ELSE PostToUI([type |-> "layers-data-for-ai",
                      layers |-> SerializeSelection(Doc, names, selection),
                      context |-> Head(toHost).context,
                      apiKey |-> Head(toHost).apiKey,
                      model |-> Head(toHost).model])
    /\ UNCHANGED <<uiVars, pendingHttp, pendingModels, timers, hostVars, clicks, fx, history>>

\* Object.keys(null) throws a TypeError: the handler ends there and posts
\* nothing
HostApplyRenames ==
    /\ toHost # <<>> /\ Head(toHost).type = "apply-renames"
    /\ toHost' = Tail(toHost)
    /\ LET renames == Head(toHost).renames
       IN  IF renames.kind = "null"
           THEN UNCHANGED <<names, toUI>>
           ELSE LET done == ApplyLoop(renames.members, 1, names, 0)
                IN  /\ names' = done.names
                    /\ PostToUI([type |-> "layers-renamed", count |-> done.count])
    /\ history' = [history EXCEPT !.scopes = Rest(@)]
    /\ UNCHANGED <<uiVars, pendingHttp, pendingModels, timers, storage, selection,
                   clicks, fx>>

\* the user changes the selection on the canvas
SelectionChange(sel) ==
    /\ sel # selection
    /\ Gesture
    /\ selection' = sel
    /\ UNCHANGED <<uiVars, toHost, toUI, pendingHttp, pendingModels, timers, storage,
                   names, fx, history>>

-----------------------------------------------------------------------------
(* The protocol specification *)

NoFx == [spec |-> "protocol"]

\* the plugin has just opened: App has rendered once and its effect has run
Init ==
    /\ provider = "google"
    /\ apiKey = Empty
    /\ model = DefaultModel
    /\ availableModels = <<>>
    /\ status = IdleStatus
    /\ toHost = <<[type |-> "request-storage"]>>
    /\ toUI = <<>>
    /\ pendingHttp = <<>>
    /\ pendingModels = <<>>
    /\ timers = 0
    /\ storage \in {<<>>, [k \in {"apiKey"} |-> Key1]}
    /\ selection = <<N1>>
    /\ names = InitialNames
    /\ clicks = 0
    /\ fx = NoFx
    /\ history = NoHistory

Next ==
    \/ UiLoadedStorage
    \/ UiLayersRenamed
    \/ UiLayersData
    \/ UiError
    \/ TimerFires
    \/ \E i \in 1..Len(pendingHttp) : \E resp \in Responses : HttpRespond(i, resp)
    \/ \E i \in 1..Len(pendingModels) : \E listed \in BOOLEAN : FetchModelsDone(i, listed)
    \/ HandleRename
    \/ \E key \in TypedKeys : SaveKey(key)
    \/ ClickFetchModels
    \/ \E p \in Providers : ChangeProvider(p)
    \/ \E m \in {DefaultOptions[i] : i \in 1..3} \cup {GoogleListed[1], GoogleListed[2]}
                \cup {FallbackModels[i] : i \in 1..4} \cup {GitHubListed[1]} :
            SelectModel(m)
    \/ HostSaveApiKey
    \/ HostRequestStorage
    \/ HostRenameLayers
    \/ HostApplyRenames
    \/ \E sel \in Selections : SelectionChange(sel)

Spec == Init /\ [][Next]_vars

-----------------------------------------------------------------------------
(* Claims about the rename protocol *)

CountType(q, t) == Cardinality({i \in 1..Len(q) : q[i].type = t})

ContainsSeq(s, sub) ==
    \E k \in 0..(Len(s) - Len(sub)) : SubSeq(s, k + 1, k + Len(sub)) = sub

\* rename requests between the UI's "rename-layers" and their end at the UI
InFlight ==
    CountType(toHost, "rename-layers") + CountType(toUI, "layers-data-for-ai")
    + Len(pendingHttp) + CountType(toHost, "apply-renames")
    + CountType(toUI, "layers-renamed") + CountType(toUI, "error")

\* C1: a 503 answer to an attempt before the third does not end the request:
\* the call stays pending for its next attempt and the status shows no error.
C1_RetryOn503 ==
    [][\A i \in 1..Len(pendingHttp) : \A resp \in Responses :
          (resp.status = 503 /\ pendingHttp[i].attempts < 3 /\ HttpRespond(i, resp))
          => /\ Len(pendingHttp') = Len(pendingHttp)
             /\ ~StartsWith(status', "Error: ")]_vars

\* C2: for either backend a 429 answer ends the request after its one HTTP
\* call: the call is no longer pending, nothing is sent to the host, and the
\* status is an error that mentions the rate limit.
C2_RateLimitEndsAtOnce ==
    [][\A i \in 1..Len(pendingHttp) : \A resp \in Responses :
          (resp.status = 429 /\ HttpRespond(i, resp))
          => /\ pendingHttp[i].attempts = 1
             /\ pendingHttp' = RemoveAt(pendingHttp, i)
             /\ toHost' = toHost
             /\ StartsWith(status', "Error: ")
             /\ Contains(status', "Rate Limit")]_vars

C2_Witness == status = <<"Error: ">> \o GitHubRateMessage

C4_OneInFlight == InFlight <= 1

\* C5: no "rename-layers" carries an empty key and no model call is pending
\* for an empty key or an empty selection; handleRename with an empty key
\* only sets the status; "rename-layers" with an empty selection is answered
\* by one "error" and nothing else.
C5_NoCallWithoutKeyOrSelection ==
    /\ [](/\ \A i \in 1..Len(toHost) :
                toHost[i].type = "rename-layers" => toHost[i].apiKey # Empty
          /\ \A i \in 1..Len(toUI) :
                toUI[i].type = "layers-data-for-ai"
                => toUI[i].apiKey # Empty /\ toUI[i].layers # <<>>
          /\ \A i \in 1..Len(pendingHttp) :
                pendingHttp[i].apiKey # Empty /\ pendingHttp[i].layers # <<>>)
    /\ [][/\ (apiKey = Empty /\ HandleRename)
             => /\ toHost' = toHost
                /\ status' = NoKeyStatus
          /\ (/\ toHost # <<>>
              /\ Head(toHost).type = "rename-layers"
              /\ selection = <<>>
              /\ HostRenameLayers)
             => /\ toUI' = Append(toUI, [type |-> "error",
                                         payload |-> Str("No layers selected")])
                /\ pendingHttp' = pendingHttp]_vars

C5_Witness ==
    /\ status = <<"Error: ", "No layers selected">>
    /\ selection = <<>>
    /\ pendingHttp = <<>>

\* a response the request cannot succeed on: a non-success status, no answer
\* text, or a text that is not JSON once the fences are stripped
TerminalFailure(backend, resp) ==
    \/ ~ResponseOk(resp)
    \/ ~resp.isJson
    \/ ~resp.hasText
    \/ (backend = "google" /\ resp.text = Empty)
    \/ ~JsonParse(CleanText(resp.text)).ok

\* C6: when the model call of a request fails terminally, the status becomes
\* "Error: ...", no message is sent to the host and no node name changes.
C6_FailuresAreCaught ==
    [][\A i \in 1..Len(pendingHttp) : \A resp \in Responses :
          (TerminalFailure(pendingHttp[i].backend, resp) /\ HttpRespond(i, resp))
          => /\ StartsWith(status', "Error: ")
             /\ toHost' = toHost
             /\ names' = names]_vars

C6_Witness ==
    \/ status = <<"Error: ", "No response text from AI">>
    \/ status = <<"Error: ", "SyntaxError: not valid JSON">>

\* the message of the response body, as far as one can be extracted
BodyMessages(resp) ==
    {m \in {resp.errorMessage, resp.raw, resp.statusText} : m # Empty}

\* C7: for either backend, a non-success status other than 429 and 503 ends
\* the request with an error that holds the status code and a message of the
\* response body.
C7_ErrorHoldsStatusAndBody ==
    [][\A i \in 1..Len(pendingHttp) : \A resp \in Responses :
          (~ResponseOk(resp) /\ resp.status \notin {429, 503} /\ HttpRespond(i, resp))
          => /\ Contains(status', ToString(resp.status))
             /\ \E m \in BodyMessages(resp) : ContainsSeq(status', m)]_vars

\* C10: "layers-data-for-ai" is posted only in answer to "rename-layers", a
\* model call starts only on "layers-data-for-ai", "apply-renames" is posted
\* only when a pending model call succeeds, and "layers-renamed" only in
\* answer to "apply-renames".
C10_MessageOrder ==
    [][/\ CountType(toUI', "layers-data-for-ai") > CountType(toUI, "layers-data-for-ai")
          => /\ toHost # <<>> /\ Head(toHost).type = "rename-layers"
             /\ toHost' = Tail(toHost)
       /\ Len(pendingHttp') > Len(pendingHttp)
          => /\ toUI # <<>> /\ Head(toUI).type = "layers-data-for-ai"
             /\ toUI' = Tail(toUI)
       /\ CountType(toHost', "apply-renames") > CountType(toHost, "apply-renames")
          => \E i \in 1..Len(pendingHttp) : \E resp \in Responses :
                /\ ResponseOk(resp) /\ resp.hasText
                /\ JsonParse(CleanText(resp.text)).ok
                /\ pendingHttp' = RemoveAt(pendingHttp, i)
                /\ toHost' = Append(toHost,
                        [type |-> "apply-renames",
                         renames |-> JsonParse(CleanText(resp.text))])
       /\ CountType(toUI', "layers-renamed") > CountType(toUI, "layers-renamed")
          => /\ toHost # <<>> /\ Head(toHost).type = "apply-renames"
             /\ toHost' = Tail(toHost)]_vars

C10_Witness ==
    /\ status = SuccessStatus
    /\ InFlight = 0
    /\ names[N2] = Str("Title")

\* C11: a rename request leaves the flow between the UI and the host only by
\* the UI showing "Layers renamed successfully!" or a status that starts with
\* "Error", whatever the model answered: no request ends without one of them.
C11_RequestEndsShown ==
    [][InFlight' < InFlight
       => \/ status' = SuccessStatus
          \/ StartsWith(status', "Error: ")]_vars

\* C12: after the "request-storage" of the session start, no UI event sends
\* another one.
C12_OneRequestStorage ==
    [][CountType(toHost', "request-storage") <= CountType(toHost, "request-storage")]_vars

\* the host handles the message at the head of its queue
HostHandles(t) ==
    toHost # <<>> /\ Head(toHost).type = t /\ toHost' = Tail(toHost)

\* C14: a step changes the name of a node only by handling "apply-renames"
\* with a rename map that has the node's id as a key; handling
\* "rename-layers" posts the serialization of the names as they are and
\* changes none; and the layers already serialized, in a message or in a
\* pending model call, stay as they were when names change.
C14_OnlyApplyRenames ==
    [][/\ \A n \in Doc.nodes :
              names'[n] # names[n]
              => /\ HostHandles("apply-renames")
                 /\ Head(toHost).renames.kind = "object"
                 /\ \E i \in 1..Len(Head(toHost).renames.members) :
                        Head(toHost).renames.members[i][1] = n
       /\ (HostHandles("rename-layers") /\ selection # <<>>)
              => /\ names' = names
                 /\ toUI'[Len(toUI')].layers = SerializeSelection(Doc, names, selection)
       /\ names' # names
              => /\ pendingHttp' = pendingHttp
                 /\ SubSeq(toUI', 1, Len(toUI)) = toUI]_vars

C14_Witness ==
    /\ names[N2] = Str("Title") /\ names[N4] = Str("Divider")
    /\ names[N1] = InitialNames[N1] /\ names[N3] = InitialNames[N3]
    /\ \E i \in 1..Len(toUI) :
          /\ toUI[i].type = "layers-data-for-ai"
          /\ toUI[i].layers[1].children[1].name = Str("Title")

\* C15: handling "apply-renames" changes the name of no node outside the
\* nodes serialized for that request (the selected nodes and their
\* descendants).
C15_RenamesStayInScope ==
    [][HostHandles("apply-renames")
       => \A n \in Doc.nodes :
              names'[n] # names[n] => n \in Head(history.scopes)]_vars

\* C16: the model call of a request goes to the provider, with the model,
\* that were selected when the user triggered it.
C16_CallGoesToAskedProvider ==
    [][(toUI # <<>> /\ Head(toUI).type = "layers-data-for-ai" /\ UiLayersData)
       => LET call == pendingHttp'[Len(pendingHttp')]
          IN  /\ call.backend = Head(history.asked).provider
              /\ call.model = Head(history.asked).model]_vars

\* C17: the delayed reset to "Idle" never replaces the "Processing..." of a
\* rename request: that status is always the one of a request started after
\* the reset was scheduled.
C17_ResetSparesLaterRequest ==
    [][(timers > 0 /\ TimerFires) => status # ProcessingStatus]_vars

-----------------------------------------------------------------------------
(* The apply-renames handler, on bounded rename maps *)

\* the plugin as it opens, for the specifications of the pure functions
Quiet ==
    /\ provider = "google"
    /\ apiKey = Empty
    /\ model = DefaultModel
    /\ availableModels = <<>>
    /\ status = IdleStatus
    /\ toHost = <<[type |-> "request-storage"]>>
    /\ toUI = <<>>
    /\ pendingHttp = <<>>
    /\ pendingModels = <<>>
    /\ timers = 0
    /\ storage = <<>>
    /\ selection = <<N1>>
    /\ names = InitialNames
    /\ clicks = 0
    /\ history = NoHistory

quietVars == <<provider, apiKey, model, availableModels, status, toHost, toUI,
               pendingHttp, pendingModels, timers, storage, selection, names, clicks,
               history>>

\* keys of a rename map
MaxKeys == 3

ApplyIds == {N1, N2, N4, Absent}
ApplyNames == {Str("Title"), Str("Icon")}

\* the rename maps of up to n members, keys distinct
RECURSIVE MapsUpTo(_)
MapsUpTo(n) ==
    IF n = 0 THEN {<<>>}
    ELSE LET shorter == MapsUpTo(n - 1)
         IN  shorter \cup
             {Append(ms, <<id, nm>>) :
                ms \in {q \in shorter : Len(q) = n - 1}, id \in ApplyIds, nm \in ApplyNames}

RenameMaps ==
    {ms \in MapsUpTo(MaxKeys) :
        \A i \in 1..Len(ms) : \A j \in 1..Len(ms) : ms[i][1] = ms[j][1] => i = j}

\* the host is about to receive "apply-renames" with one of the maps
InitApply ==
    /\ provider = "google"
    /\ apiKey = Key1
    /\ model = DefaultModel
    /\ availableModels = <<>>
    /\ status = <<"Using ">> \o DefaultModel \o <<"...">>
    /\ \E ms \in RenameMaps :
          toHost = <<[type |-> "apply-renames", renames |-> JsonObject(ms)]>>
    /\ toUI = <<>>
    /\ pendingHttp = <<>>
    /\ pendingModels = <<>>
    /\ timers = 0
    /\ storage = [k \in {"apiKey"} |-> Key1]
    /\ selection = <<N1>>
    /\ names = InitialNames
    /\ clicks = 0
    /\ fx = [spec |-> "apply"]
    /\ history = [asked |-> <<>>,
                  scopes |-> <<LayerIds(SerializeSelection(Doc, InitialNames, <<N1>>))>>]

NextApply == HostApplyRenames \/ UiLayersRenamed \/ TimerFires

SpecApply == InitApply /\ [][NextApply]_vars

-----------------------------------------------------------------------------
(* The fence-stripping of the two backends, on bounded answers *)

\* tokens of a name in an answer
MaxNameLen == 3

NameTokens == {Backtick, "json", "A"}

RECURSIVE SeqsUpTo(_, _)
SeqsUpTo(S, n) ==
    IF n = 0 THEN {<<>>}
    ELSE LET shorter == SeqsUpTo(S, n - 1)
         IN  shorter \cup {Append(q, x) : q \in shorter, x \in S}

FenceNames == SeqsUpTo(NameTokens, MaxNameLen)

\* the JSON object bodies B: one or two members
FenceBodies ==
    {<<<<N2, a>>>> : a \in FenceNames}
    \cup {<<<<N2, a>>, <<N4, b>>>> : a \in FenceNames, b \in {Str("A"), Fence}}

\* ```json B ```, the fence set off by newlines or by spaces
WrapWith(sep, body) == FenceJson \o <<sep>> \o body \o <<sep>> \o Fence

InitFence ==
    /\ Quiet
    /\ \E B \in FenceBodies : \E sep \in WS :
          fx = [spec |-> "fence", phase |-> "input", body |-> B, sep |-> sep,
                backend |-> "none", wrapped |-> Throw(Empty), plain |-> Throw(Empty)]

\* the backend answers B wrapped in a fence, and B as it is
FenceCall(backend) ==
    /\ fx.spec = "fence" /\ fx.phase = "input"
    /\ fx' = [fx EXCEPT
                !.phase = "done",
                !.backend = backend,
                !.wrapped = CallBackend(backend,
                                Answer(WrapWith(fx.sep, JsonStringify(fx.body)))),
                !.plain = CallBackend(backend, Answer(JsonStringify(fx.body)))]
    /\ UNCHANGED quietVars

FenceCallLLM == FenceCall("google")
FenceCallGitHub == FenceCall("github")

NextFence == FenceCallLLM \/ FenceCallGitHub

SpecFence == InitFence /\ [][NextFence]_vars

\* C8: for every JSON object body B, the answer B wrapped in a fence and the
\* answer B both give the rename map B: stripping the fence changes nothing
\* but the fence.
C8_FenceChangesOnlyFence ==
    fx.phase = "done"
    => /\ fx.wrapped = Ok(JsonObject(fx.body))
       /\ fx.plain = Ok(JsonObject(fx.body))

-----------------------------------------------------------------------------
(* The node serializer, on bounded documents *)

\* nodes of a document
MaxNodes == 3

SerialNodes == 1..MaxNodes

\* the children of n in host order: ascending or descending ids
RECURSIVE ChildSeq(_, _, _, _)
ChildSeq(parent, n, k, ascending) ==
    IF k > MaxNodes THEN <<>>
    ELSE LET rest == ChildSeq(parent, n, k + 1, ascending)
         IN  IF parent[k] # n THEN rest
             ELSE IF ascending THEN <<k>> \o rest ELSE rest \o <<k>>

\* documents: node k hangs under a node before it or under the page (0);
\* every node with children is a container, and so are the nodes of frames
SerialDocs ==
    {[nodes |-> SerialNodes,
      type |-> [n \in SerialNodes |->
                  IF n \in frames \/ (\E k \in SerialNodes : parent[k] = n) THEN "FRAME"
                  ELSE IF n % 2 = 1 THEN "TEXT" ELSE "RECTANGLE"],
      container |-> frames \cup {n \in SerialNodes : \E k \in SerialNodes : parent[k] = n},
      children |-> [n \in SerialNodes |-> ChildSeq(parent, n, 1, ascending)],
      characters |-> [n \in SerialNodes |-> Str("Sign in")]] :
        parent \in {f \in [SerialNodes -> 0..MaxNodes] : \A k \in SerialNodes : f[k] < k},
        frames \in SUBSET SerialNodes,
        ascending \in BOOLEAN}

SerialNames == [n \in SerialNodes |-> <<"Layer ", ToString(n)>>]

SerialSelections ==
    {<<a>> : a \in SerialNodes}
    \cup {q \in {<<a, b>> : a \in SerialNodes, b \in SerialNodes} : q[1] # q[2]}

InitSerial ==
    /\ Quiet
    /\ \E doc \in SerialDocs : \E sel \in SerialSelections :
          fx = [spec |-> "serial", phase |-> "input", doc |-> doc, sel |-> sel,
                out |-> <<>>]

\* layersData = selection.map(getNodeData)
Serialize ==
    /\ fx.spec = "serial" /\ fx.phase = "input"
    /\ fx' = [fx EXCEPT !.phase = "done",
                        !.out = SerializeSelection(fx.doc, SerialNames, fx.sel)]
    /\ UNCHANGED quietVars

NextSerial == Serialize

SpecSerial == InitSerial /\ [][NextSerial]_vars

Max(S) == CHOOSE x \in S : \A y \in S : y <= x

RECURSIVE HostDepth(_, _)
HostDepth(doc, n) ==
    IF doc.children[n] = <<>> THEN 1
    ELSE 1 + Max({HostDepth(doc, doc.children[n][i]) : i \in 1..Len(doc.children[n])})

RECURSIVE RecordDepth(_)
RecordDepth(rec) ==
    IF ~HasChildren(rec) \/ rec.children = <<>> THEN 1
    ELSE 1 + Max({RecordDepth(rec.children[i]) : i \in 1..Len(rec.children)})

\* rec mirrors the subtree of n; leavesOmit: whether a node without children
\* must omit the field even when it is a container
RECURSIVE Mirrors(_, _, _, _)
Mirrors(doc, rec, n, leavesOmit) ==
    /\ rec.id = n
    /\ rec.name = SerialNames[n]
    /\ rec.type = doc.type[n]
    /\ IF doc.children[n] # <<>>
       THEN /\ HasChildren(rec)
            /\ Len(rec.children) = Len(doc.children[n])
            /\ \A i \in 1..Len(rec.children) :
                   Mirrors(doc, rec.children[i], doc.children[n][i], leavesOmit)
       ELSE IF leavesOmit \/ n \notin doc.container
            THEN ~HasChildren(rec)
            ELSE HasChildren(rec) /\ rec.children = <<>>

MirrorsSelection(leavesOmit) ==
    fx.phase = "done"
    => /\ Len(fx.out) = Len(fx.sel)
       /\ \A i \in 1..Len(fx.sel) :
             /\ Mirrors(fx.doc, fx.out[i], fx.sel[i], leavesOmit)
             /\ RecordDepth(fx.out[i]) = HostDepth(fx.doc, fx.sel[i])

\* C9 as stated: every node without children omits the "children" field.
C9_LeavesOmitChildren == MirrorsSelection(TRUE)

\* C9: one record per selected root in selection order, of the depth of the
\* host tree; a node with children lists them in host order; a node that is
\* no container omits "children"; a container without children has an empty
\* "children" list.
C9_SerializerMirrorsTree == MirrorsSelection(FALSE)

\* a frame with two children in descending order, one of them an empty frame
C9_Witness ==
    /\ fx.phase = "done"
    /\ \E i \in 1..Len(fx.out) :
          /\ HasChildren(fx.out[i])
          /\ Len(fx.out[i].children) = 2
          /\ fx.out[i].children[1].id > fx.out[i].children[2].id
          /\ \E j \in 1..2 :
                HasChildren(fx.out[i].children[j]) /\ fx.out[i].children[j].children = <<>>

-----------------------------------------------------------------------------
(* The host's storage handlers, on bounded sequences of storage messages *)

\* messages of a sequence
MaxMessages == 3

\* what the UI posts about the credential: the effect's request and saveKey
\* with a typed key (the empty string when the input is cleared)
StorageMessages ==
    {[type |-> "request-storage"]}
    \cup {[type |-> "save-api-key", apiKey |-> k] : k \in {Key1, Key2, Empty}}

\* the host is about to receive a sequence of storage messages, on a fresh
\* install or with a key stored by an earlier session
InitStorage ==
    /\ provider = "google"
    /\ apiKey = Empty
    /\ model = DefaultModel
    /\ availableModels = <<>>
    /\ status = IdleStatus
    /\ toHost \in SeqsUpTo(StorageMessages, MaxMessages)
    /\ toUI = <<>>
    /\ pendingHttp = <<>>
    /\ pendingModels = <<>>
    /\ timers = 0
    /\ storage \in {<<>>, [k \in {"apiKey"} |-> Key1]}
    /\ selection = <<N1>>
    /\ names = InitialNames
    /\ clicks = 0
    /\ fx = [spec |-> "storage", msgs |-> toHost, initial |-> storage]
    /\ history = NoHistory

NextStorage == HostSaveApiKey \/ HostRequestStorage

SpecStorage == InitStorage /\ [][NextStorage]_vars

\* the messages the host has handled so far
Handled == SubSeq(fx.msgs, 1, Len(fx.msgs) - Len(toHost))

Saves(ms) == {i \in 1..Len(ms) : ms[i].type = "save-api-key"}

\* what storage holds after the messages ms: the pair of the last
\* "save-api-key", or what it held before when there is none
LastSaved(ms, initial) ==
    IF Saves(ms) = {} THEN initial
    ELSE [k \in {"apiKey"} |-> ms[Max(Saves(ms))].apiKey]

\* the "loaded-storage" answers to the "request-storage" among the first k
\* messages of ms, each with the value stored when its request was handled
RECURSIVE AnswersTo(_, _, _)
AnswersTo(ms, k, initial) ==
    IF k = 0 THEN <<>>
    ELSE LET before == AnswersTo(ms, k - 1, initial)
             stored == LastSaved(SubSeq(ms, 1, k - 1), initial)
         IN  IF ms[k].type = "request-storage"
             THEN Append(before,
                    [type |-> "loaded-storage",
                     apiKey |-> IF "apiKey" \in DOMAIN stored
                                THEN Some(stored["apiKey"]) ELSE None])
             ELSE before

\* the value is the one last saved, and every request has its one answer
ValueAndAnswers ==
    /\ storage = LastSaved(Handled, fx.initial)
    /\ toUI = AnswersTo(Handled, Len(Handled), fx.initial)

\* C13 as stated: after any storage messages, storage holds exactly one pair.
C13_ExactlyOnePair ==
    (fx.spec = "storage" /\ Handled # <<>>)
    => /\ DOMAIN storage = {"apiKey"}
       /\ ValueAndAnswers

\* C13: storage holds at most one pair, under the key "apiKey": none while
\* no "save-api-key" was ever handled, exactly one afterwards, with the
\* credential of the most recently handled "save-api-key"; and every
\* "request-storage" is answered by one "loaded-storage" that carries the
\* value stored at that moment, or none when nothing is stored.
C13_StorageHoldsLastSaved ==
    fx.spec = "storage"
    => /\ DOMAIN storage \subseteq {"apiKey"}
       /\ (Saves(Handled) # {} \/ fx.initial # <<>>) <=> DOMAIN storage = {"apiKey"}
       /\ ValueAndAnswers

\* two saves and then a request on a fresh install, after a first request
\* that found nothing
C13_Witness ==
    /\ fx.spec = "storage" /\ fx.initial = <<>> /\ toHost = <<>>
    /\ Cardinality(Saves(Handled)) = 2
    /\ storage = [k \in {"apiKey"} |-> Key2]
    /\ toUI = <<[type |-> "loaded-storage", apiKey |-> None]>>

=============================================================================
